---- MODULE Spec2Model ----
(***************************************************************************)
(* Model of the notebook "A Python puzzle: Using a series of increasing    *)
(* default values for defaultdict".  Every solution of the notebook is a   *)
(* default factory: a callable that keeps a count between calls.  The      *)
(* model keeps the objects that hold such a count in a heap (gen), the     *)
(* defaultdicts in a second heap (dd), and translates each factory's body  *)
(* and defaultdict's lookup statement by statement.                        *)
(***************************************************************************)
EXTENDS Integers, Sequences, FiniteSets, TLC

\* ------------------------------------------------------------------ bounds
MaxCalls == 12      \* direct calls of one factory (SpecGen)
MaxLookups == 5     \* length of the key sequence one notebook run looks up
NumKeys == 3        \* number of different keys of one notebook run
NumKeysTwo == 2     \* number of different keys looked up in two defaultdicts
MaxOps == 3         \* lookups and calls begun by the concurrent threads
MaxSerialCalls == 5 \* calls of SerialInt and lookups (SpecSerial)
MaxPileCalls == 4   \* calls of pile_it_on and counter (SpecPile)

\* ------------------------------------------------------- the nine factories
\* The solutions in the order of their cells.
CellOrder ==
    << "CounterObj", "SerialInt", "count_generator_func", "count_next",
       "partial_next", "make_counter", "counter", "lambda_enumerate",
       "lambda_pop" >>

Strategy == { CellOrder[i] : i \in DOMAIN CellOrder }

\* The keys of the notebook's lookups, and two more to widen the key set.
KeyPool == << "spam", "eggs", "and", "ham", "bacon" >>

Keys == { KeyPool[i] : i \in 1..NumKeys }

KeysTwo == { KeyPool[i] : i \in 1..NumKeysTwo }

\* ------------------------------------------------------------------- state
VARIABLES
    gen,        \* heap of the objects that carry a count: sequence of records
    dd,         \* heap of defaultdicts: [default_factory, entries]
    strategy,   \* the solution whose cell is running (or under test)
    lookups,    \* the key sequence the print statement looks up
    pos,        \* number of lookups of the running cell already evaluated
    printed,    \* printed[c]: the values cell c has produced so far
    returned,   \* values returned by direct calls of the factory
    out,        \* outcome of the last statement
    shared,     \* TRUE when one factory object was passed to both defaultdicts
    misses,     \* history: <<map, key>> of every stored default, in order
    thr         \* thr[t]: what thread t is executing (concurrent callers)

vars ==
    << gen, dd, strategy, lookups, pos, printed, returned, out, shared, misses,
       thr >>

\* ------------------------------------------------- Python values and lists
\* Outcome of a call: the value returned, or the exception raised.
Returns(g, v) == [gen |-> g, exc |-> "", ret |-> v]

Raises(g, e) == [gen |-> g, exc |-> e, ret |-> 0]

\* int() without arguments
IntCall == 0

\* the sentinel of iter(int, 1)
Sentinel == 1

\* the start argument of enumerate(..., 1) and of count(1)
Start == 1

\* ---------------------------------------------------- the factories' state
\* The object that carries the count of a solution, as the solution's
\* definition or factory expression creates it.
Fresh(s) ==
    CASE s = "CounterObj"           -> [kind |-> s, count |-> 0]
      [] s = "SerialInt"            -> [kind |-> s, count |-> 0]
      [] s = "count_generator_func" -> [kind |-> s, pc |-> "start", count |-> 0]
      [] s = "count_next"           -> [kind |-> s, cnt |-> Start]
      [] s = "partial_next"         -> [kind |-> s, cnt |-> Start]
      [] s = "make_counter"         -> [kind |-> s, count |-> 0]
      [] s = "counter"              -> [kind |-> s, count_list |-> << 0 >>]
      [] s = "lambda_enumerate"     -> [kind |-> s, index |-> Start]
      [] s = "lambda_pop"           -> [kind |-> s, c |-> << 0 >>]
      [] s = "int"                  -> [kind |-> s]

\* CounterObj.__call__: self.count += 1; return self.count
CounterObj_call(self) ==
    LET self1 == [self EXCEPT !.count = self.count + 1]
    IN  Returns(self1, self1.count)

\* SerialInt.__new__(cls, x): cls.count += 1;
\* return int.__new__(cls, cls.count if x is None else x)
SerialInt_new(cls, xIsNone, x) ==
    LET cls1 == [cls EXCEPT !.count = cls.count + 1]
    IN  Returns(cls1, IF xIsNone THEN cls1.count ELSE x)

\* Variant: the generator function has no loop around its yield, so the
\* generator is exhausted after the first value.
count_generator_next_once(g) ==
    IF g.pc = "start"
    THEN Returns([g EXCEPT !.count = 1, !.pc = "yield"], 1)
    ELSE Raises(g, "StopIteration")

\* Variant: the statement count += 1 after the yield is missing.
count_generator_next_stuck(g) ==
    LET g1 == IF g.pc = "start"
              THEN [g EXCEPT !.count = 1, !.pc = "yield"]
              ELSE g
    IN  Returns(g1, g1.count)

\* __next__ of the generator made by count_generator_func(): run to the
\* next yield.  From the start: count = 1, enter the loop, yield count.
\* From the yield: count += 1, loop again (while True), yield count.
count_generator_next(g) ==
    LET g1 == IF g.pc = "start"
              THEN [g EXCEPT !.count = 1, !.pc = "yield"]
              ELSE [g EXCEPT !.count = g.count + 1]
    IN  Returns(g1, g1.count)

\* itertools.count(1).__next__: return the current number, then step by 1
itertools_count_next(it) ==
    Returns([it EXCEPT !.cnt = it.cnt + 1], it.cnt)

\* partial(next, count(1))(): next(it), which is it.__next__()
partial_next_call(it) == itertools_count_next(it)

\* Variant: the closure returns the count it had before count += 1.
closure_counter_call_old(cell) ==
    LET cell1 == [cell EXCEPT !.count = cell.count + 1]
    IN  Returns(cell1, cell.count)

\* the closure counter() of make_counter: nonlocal count; count += 1; return
closure_counter_call(cell) ==
    LET cell1 == [cell EXCEPT !.count = cell.count + 1]
    IN  Returns(cell1, cell1.count)

\* Variant: the default list is copied on every call, so the increment is
\* made on the copy and lost.
counter_call_rebind(f) ==
    LET lst  == f.count_list
        lst1 == [lst EXCEPT ![1] = lst[1] + 1]
    IN  Returns(f, lst1[1])

\* counter(count=[0]) called with its default: count[0] += 1; return count[0]
\* (Python index 0 is index 1 of the sequence)
counter_call(f) ==
    LET lst  == f.count_list
        lst1 == [lst EXCEPT ![1] = lst[1] + 1]
    IN  Returns([f EXCEPT !.count_list = lst1], lst1[1])

\* Variant: next(c)[1], the item instead of its index.
lambda_enumerate_call_item(f) ==
    IF IntCall = Sentinel
    THEN Raises(f, "StopIteration")
    ELSE LET pair == << f.index, IntCall >>
         IN  Returns([f EXCEPT !.index = f.index + 1], pair[2])

\* lambda c=enumerate(iter(int, 1), 1): next(c)[0]
\* iter(int, 1) calls int() and stops when the result equals the sentinel;
\* enumerate pairs the item with its index and steps the index.
lambda_enumerate_call(f) ==
    IF IntCall = Sentinel
    THEN Raises(f, "StopIteration")
    ELSE LET pair == << f.index, IntCall >>
         IN  Returns([f EXCEPT !.index = f.index + 1], pair[1])

\* lambda c=[0]: c.append(c.pop() + 1) or c[0]
\* pop() removes and returns the last item; append() returns None, which is
\* false, so the value of the lambda is c[0].
lambda_pop_call(f) ==
    IF Len(f.c) = 0
    THEN Raises(f, "IndexError")
    ELSE LET popped == f.c[Len(f.c)]
             c1     == SubSeq(f.c, 1, Len(f.c) - 1)
             c2     == Append(c1, popped + 1)
         IN  Returns([f EXCEPT !.c = c2], c2[1])

\* Calling the default factory without arguments.
Call(g) ==
    CASE g.kind = "CounterObj"           -> CounterObj_call(g)
      [] g.kind = "SerialInt"            -> SerialInt_new(g, TRUE, 0)
      [] g.kind = "count_generator_func" -> count_generator_next(g)
      [] g.kind = "count_next"           -> itertools_count_next(g)
      [] g.kind = "partial_next"         -> partial_next_call(g)
      [] g.kind = "make_counter"         -> closure_counter_call(g)
      [] g.kind = "counter"              -> counter_call(g)
      [] g.kind = "lambda_enumerate"     -> lambda_enumerate_call(g)
      [] g.kind = "lambda_pop"           -> lambda_pop_call(g)
      [] g.kind = "int"                  -> Returns(g, IntCall)

\* The last value the factory has produced (0 before the first call), read
\* from wherever the solution keeps it.
Cursor(g) ==
    CASE g.kind \in {"CounterObj", "SerialInt", "make_counter"} -> g.count
      [] g.kind = "count_generator_func" ->
            IF g.pc = "start" THEN 0 ELSE g.count
      [] g.kind \in {"count_next", "partial_next"} -> g.cnt - 1
      [] g.kind = "counter"              -> g.count_list[1]
      [] g.kind = "lambda_enumerate"     -> g.index - 1
      [] g.kind = "lambda_pop"           -> g.c[1]

\* Variant: make_counter's count is created once, like a global.
IsSingleton_closure(s) == s \in {"SerialInt", "counter", "make_counter"}

\* Variant: SerialInt's count is created per factory expression.
IsSingleton_instance(s) == s \in {"counter"}

\* ------------------------------------------- definitions and factory exprs
\* SerialInt keeps the count in a class attribute and counter in its default
\* argument: the count is created once, when the class or function is
\* defined.  Every other solution creates it when the factory expression
\* (CounterObj(), make_counter(), count(1), a lambda ...) is evaluated.
IsSingleton(s) == s \in {"SerialInt", "counter"}

\* The heap after the class and def statements of the cell of solution s.
Definitions(s, heap) ==
    IF IsSingleton(s) THEN Append(heap, Fresh(s)) ELSE heap

\* Evaluating the argument expression of defaultdict(...) for solution s:
\* the heap afterwards and the reference to the object holding the count.
FactoryExpr(s, heap) ==
    IF IsSingleton(s)
    THEN [heap |-> heap,
          ref  |-> CHOOSE i \in DOMAIN heap :
                     /\ heap[i].kind = s
                     /\ \A j \in DOMAIN heap : heap[j].kind = s => j <= i]
    ELSE [heap |-> Append(heap, Fresh(s)), ref |-> Len(heap) + 1]

\* ------------------------------------------------------------- defaultdict
NoneArg == [type |-> "NoneType", ref |-> 0]

IntArg == [type |-> "int", ref |-> 0]

CallableArg(r) == [type |-> "callable", ref |-> r]

NoEntries == [k \in {} |-> 0]

\* Variant: the type of the first argument is not checked.
defaultdict_new_unchecked(arg) ==
    [exc |-> "", map |-> [default_factory |-> arg, entries |-> NoEntries]]

\* defaultdict(arg): the first argument must be callable or None.
defaultdict_new(arg) ==
    IF arg.type \in {"callable", "NoneType"}
    THEN [exc |-> "", map |-> [default_factory |-> arg, entries |-> NoEntries]]
    ELSE [exc |-> "TypeError", map |-> [default_factory |-> arg, entries |-> NoEntries]]

\* Variant: storing a key drops the keys stored before.
Store_replace(entries, key, value) == [k \in {key} |-> value]

Store(entries, key, value) ==
    [k \in DOMAIN entries \cup {key} |-> IF k = key THEN value ELSE entries[k]]

\* Variant: the factory is called and its result stored on every lookup,
\* present key or not.
GetItem_nocheck(d, key, heap) ==
    LET r == d.default_factory.ref
        c == Call(heap[r])
    IN  [map |-> [d EXCEPT !.entries = Store(d.entries, key, c.ret)],
         heap |-> [heap EXCEPT ![r] = c.gen],
         exc |-> "", ret |-> c.ret, miss |-> key \notin DOMAIN d.entries]

\* Variant: a present key returns its stored value, but the factory is
\* called all the same.
GetItem_hit_calls(d, key, heap) ==
    LET r == d.default_factory.ref
        c == Call(heap[r])
    IN  IF key \in DOMAIN d.entries
        THEN [map |-> d, heap |-> [heap EXCEPT ![r] = c.gen],
              exc |-> "", ret |-> d.entries[key], miss |-> FALSE]
        ELSE [map |-> [d EXCEPT !.entries = Store(d.entries, key, c.ret)],
              heap |-> [heap EXCEPT ![r] = c.gen],
              exc |-> "", ret |-> c.ret, miss |-> TRUE]

\* d[key] on the defaultdict d: a present key returns its value; a missing
\* key goes to __missing__, which raises KeyError without a factory, and
\* otherwise calls the factory, stores the result under key and returns it.
\* An exception of the factory propagates and nothing is stored.
GetItem(d, key, heap) ==
    IF key \in DOMAIN d.entries
    THEN [map |-> d, heap |-> heap, exc |-> "", ret |-> d.entries[key], miss |-> FALSE]
    ELSE IF d.default_factory.type = "NoneType"
    THEN [map |-> d, heap |-> heap, exc |-> "KeyError", ret |-> 0, miss |-> TRUE]
    ELSE LET r == d.default_factory.ref
             c == Call(heap[r])
         IN  IF c.exc # ""
             THEN [map |-> d, heap |-> [heap EXCEPT ![r] = c.gen],
                   exc |-> c.exc, ret |-> 0, miss |-> TRUE]
             ELSE [map |-> [d EXCEPT !.entries = Store(d.entries, key, c.ret)],
                   heap |-> [heap EXCEPT ![r] = c.gen],
                   exc |-> "", ret |-> c.ret, miss |-> TRUE]

NoOut == [op |-> "none", map |-> 0, key |-> "", exc |-> "", ret |-> 0, miss |-> FALSE]

\* ===================================================================== *
\* SpecGen: one factory of a chosen solution, called directly.            *
\* ===================================================================== *
InitGen ==
    /\ strategy \in Strategy
    /\ gen = FactoryExpr(strategy, Definitions(strategy, << >>)).heap
    /\ dd = << >>
    /\ lookups = << >>
    /\ pos = 0
    /\ printed = << >>
    /\ returned = << >>
    /\ out = NoOut
    /\ shared = FALSE
    /\ misses = << >>
    /\ thr = << >>

\* factory(): one call of the factory without arguments
CallFactory ==
    /\ Len(returned) < MaxCalls
    /\ LET c == Call(gen[1])
       IN  /\ gen' = [gen EXCEPT ![1] = c.gen]
           /\ returned' = IF c.exc = "" THEN Append(returned, c.ret) ELSE returned
           /\ out' = [NoOut EXCEPT !.op = "call", !.exc = c.exc, !.ret = c.ret]
    /\ UNCHANGED << dd, strategy, lookups, pos, printed, shared, misses, thr >>

NextGen == CallFactory

SpecGen == InitGen /\ [][NextGen]_vars

\* ===================================================================== *
\* Spec: the notebook run from top to bottom.  Each solution's cell       *
\* defines its class or function, builds dd = defaultdict(<factory>) and  *
\* prints dd[key] for a sequence of keys (spam, eggs, spam, and, spam in  *
\* the notebook; any sequence over Keys here).                            *
\* ===================================================================== *
BoundedSeq(S, n) == UNION { [1..m -> S] : m \in 0..n }

Init ==
    /\ lookups \in BoundedSeq(Keys, MaxLookups)
    /\ gen = << >>
    /\ dd = << >>
    /\ strategy = "none"
    /\ pos = 0
    /\ printed = << >>
    /\ returned = << >>
    /\ out = NoOut
    /\ shared = FALSE
    /\ misses = << >>
    /\ thr = << >>

\* The class/def statements of the next cell and dd = defaultdict(<factory>)
RunCell ==
    /\ Len(dd) < Len(CellOrder)
    /\ Len(dd) = 0 \/ pos = Len(lookups)
    /\ LET s == CellOrder[Len(dd) + 1]
           f == FactoryExpr(s, Definitions(s, gen))
           n == defaultdict_new(CallableArg(f.ref))
       IN  /\ strategy' = s
           /\ gen' = f.heap
           /\ dd' = Append(dd, n.map)
           /\ out' = [NoOut EXCEPT !.op = "defaultdict", !.map = Len(dd) + 1]
    /\ pos' = 0
    /\ printed' = Append(printed, << >>)
    /\ UNCHANGED << lookups, returned, shared, misses, thr >>

\* The next argument dd[key] of the cell's print statement
PrintArg ==
    /\ Len(dd) > 0
    /\ pos < Len(lookups)
    /\ LET m   == Len(dd)
           key == lookups[pos + 1]
           r   == GetItem(dd[m], key, gen)
       IN  /\ dd' = [dd EXCEPT ![m] = r.map]
           /\ gen' = r.heap
           /\ out' = [op |-> "getitem", map |-> m, key |-> key,
                      exc |-> r.exc, ret |-> r.ret, miss |-> r.miss]
           /\ printed' = IF r.exc = ""
                         THEN [printed EXCEPT ![m] = Append(@, r.ret)]
                         ELSE printed
           /\ misses' = IF r.miss /\ r.exc = ""
                        THEN Append(misses, << m, key >>)
                        ELSE misses
    /\ pos' = pos + 1
    /\ UNCHANGED << strategy, lookups, returned, shared, thr >>

Next == RunCell \/ PrintArg

Spec == Init /\ [][Next]_vars

\* ===================================================================== *
\* SpecTwo: two defaultdicts built from the same solution, looked up in   *
\* any interleaving.  With shared = FALSE the factory expression is       *
\* evaluated once per defaultdict; with shared = TRUE it is evaluated     *
\* once and the same object is passed to both.                            *
\* ===================================================================== *
Maps == {1, 2}

InitTwo ==
    /\ strategy \in Strategy
    /\ shared \in BOOLEAN
    /\ LET f1 == FactoryExpr(strategy, Definitions(strategy, << >>))
           f2 == IF shared THEN f1 ELSE FactoryExpr(strategy, f1.heap)
       IN  /\ gen = f2.heap
           /\ dd = << defaultdict_new(CallableArg(f1.ref)).map,
                      defaultdict_new(CallableArg(f2.ref)).map >>
    /\ lookups = << >>
    /\ pos = 0
    /\ printed = << >>
    /\ returned = << >>
    /\ out = NoOut
    /\ misses = << >>
    /\ thr = << >>

\* dd_m[key]
Lookup(m, key) ==
    /\ LET r == GetItem(dd[m], key, gen)
       IN  /\ dd' = [dd EXCEPT ![m] = r.map]
           /\ gen' = r.heap
           /\ out' = [op |-> "getitem", map |-> m, key |-> key,
                      exc |-> r.exc, ret |-> r.ret, miss |-> r.miss]
           /\ misses' = IF r.miss /\ r.exc = ""
                        THEN Append(misses, << m, key >>)
                        ELSE misses
    /\ UNCHANGED << strategy, lookups, pos, printed, returned, shared, thr >>

NextTwo == \E m \in Maps, key \in KeysTwo : Lookup(m, key)

SpecTwo == InitTwo /\ [][NextTwo]_vars

\* ===================================================================== *
\* SpecCtor: defaultdict(arg) for an argument that is None, the integer   *
\* 0 or the factory of a solution, followed by lookups.                   *
\* ===================================================================== *
InitCtor ==
    /\ strategy \in Strategy
    /\ gen = << >>
    /\ dd = << >>
    /\ lookups = << >>
    /\ pos = 0
    /\ printed = << >>
    /\ returned = << >>
    /\ out = NoOut
    /\ shared = FALSE
    /\ misses = << >>
    /\ thr = << >>

\* dd = defaultdict(arg)
Construct(argtype) ==
    /\ out.op = "none"
    /\ LET f   == FactoryExpr(strategy, Definitions(strategy, gen))
           arg == CASE argtype = "NoneType" -> NoneArg
                    [] argtype = "int"      -> IntArg
                    [] argtype = "callable" -> CallableArg(f.ref)
           n   == defaultdict_new(arg)
       IN  /\ gen' = IF argtype = "callable" THEN f.heap ELSE gen
           /\ dd' = IF n.exc = "" THEN Append(dd, n.map) ELSE dd
           /\ out' = [NoOut EXCEPT !.op = "defaultdict", !.exc = n.exc,
                                   !.key = argtype]
    /\ UNCHANGED << strategy, lookups, pos, printed, returned, shared, misses, thr >>

\* dd[key] on the constructed defaultdict
LookupCtor(key) ==
    /\ Len(dd) = 1
    /\ Lookup(1, key)

NextCtor ==
    \/ \E argtype \in {"NoneType", "int", "callable"} : Construct(argtype)
    \/ \E key \in Keys : LookupCtor(key)

SpecCtor == InitCtor /\ [][NextCtor]_vars

\* ===================================================================== *
\* SpecConc: concurrent callers.  Two threads call one factory object,    *
\* directly or through a missing key of one of two defaultdicts that      *
\* share it.  No statement of the notebook takes a lock, so a thread      *
\* switch can fall between any two bytecodes of a factory written in      *
\* Python: between the read and the write of count += 1, between          *
\* c.pop() and c.append(), before the return.  dict lookup, dict store,   *
\* list.pop, list.append and the iterators of itertools run as one step.  *
\* ===================================================================== *
Threads == {1, 2}

\* The keys the threads look up.
KeysConc == { KeyPool[1], KeyPool[2] }

IdleThread ==
    [pc |-> "idle", ref |-> 0, map |-> 0, key |-> "", tmp |-> 0, ret |-> 0,
     lastop |-> "none", lastmap |-> 0, lastkey |-> "", lastexc |-> "",
     lastret |-> 0]

\* The first statement a call of the factory executes.  count(1).__next__
\* and partial(next, count(1)) are not written in Python: no thread switch
\* falls between the dict's miss, their call and the store ("builtin").
FirstPc(kind) ==
    CASE kind \in {"CounterObj", "SerialInt", "make_counter", "counter"} -> "read"
      [] kind = "lambda_pop"           -> "pop"
      [] kind = "count_generator_func" -> "enter"
      [] kind = "lambda_enumerate"     -> "atomic"
      [] kind \in {"count_next", "partial_next"} -> "builtin"

\* The count read by self.count, count (nonlocal) or count[0].
ReadCount(g) == IF g.kind = "counter" THEN g.count_list[1] ELSE g.count

\* The assignment self.count = v, count = v or count[0] = v.
WriteCount(g, v) ==
    IF g.kind = "counter"
    THEN [g EXCEPT !.count_list = [g.count_list EXCEPT ![1] = v]]
    ELSE [g EXCEPT !.count = v]

\* Variant: a failed factory call leaves int()'s default under the key.
MissingFinish_default(d, key, exc, ret) ==
    IF exc # ""
    THEN [d EXCEPT !.entries = Store(d.entries, key, IntCall)]
    ELSE [d EXCEPT !.entries = Store(d.entries, key, ret)]

\* End of defaultdict.__missing__: the factory's value is stored under the
\* key; an exception of the factory propagates and nothing is stored.
MissingFinish(d, key, exc, ret) ==
    IF exc # ""
    THEN d
    ELSE [d EXCEPT !.entries = Store(d.entries, key, ret)]

InitConc ==
    /\ strategy \in Strategy
    /\ shared = TRUE
    /\ LET f == FactoryExpr(strategy, Definitions(strategy, << >>))
       IN  /\ gen = f.heap
           /\ dd = << defaultdict_new(CallableArg(f.ref)).map,
                      defaultdict_new(CallableArg(f.ref)).map >>
    /\ lookups = << >>
    /\ pos = 0
    /\ printed = << >>
    /\ returned = << >>
    /\ out = NoOut
    /\ misses = << >>
    /\ thr = [t \in Threads |-> IdleThread]

\* The factory call of thread t ends with exception exc or value ret:
\* __missing__ stores and dd[key] returns, or the direct caller gets ret.
\* The outcome is kept per thread (thr[t].last...).
Finish(t, m, key, exc, ret) ==
    /\ dd' = IF m = 0 THEN dd
             ELSE [dd EXCEPT ![m] = MissingFinish(dd[m], key, exc, ret)]
    /\ misses' = IF m # 0 /\ exc = ""
                 THEN Append(misses, << m, key >>)
                 ELSE misses
    /\ returned' = IF exc = "" THEN Append(returned, ret) ELSE returned
    /\ thr' = [thr EXCEPT ![t] =
                 [IdleThread EXCEPT
                    !.lastop = IF m = 0 THEN "call" ELSE "getitem",
                    !.lastmap = m, !.lastkey = key,
                    !.lastexc = exc, !.lastret = ret]]

\* Thread t evaluates dd_m[key]: a present key returns at once; a missing
\* key enters __missing__, which calls the factory.
BeginLookup(t, m, key) ==
    /\ thr[t].pc = "idle"
    /\ pos < MaxOps
    /\ pos' = pos + 1
    /\ LET r == dd[m].default_factory.ref
           c == Call(gen[r])
       IN  CASE key \in DOMAIN dd[m].entries ->
                  /\ thr' = [thr EXCEPT ![t] =
                               [IdleThread EXCEPT
                                  !.lastop = "getitem", !.lastmap = m,
                                  !.lastkey = key,
                                  !.lastret = dd[m].entries[key]]]
                  /\ UNCHANGED << gen, dd, returned, misses >>
             [] /\ key \notin DOMAIN dd[m].entries
                /\ FirstPc(gen[r].kind) = "builtin" ->
                  /\ gen' = [gen EXCEPT ![r] = c.gen]
                  /\ Finish(t, m, key, c.exc, c.ret)
             [] /\ key \notin DOMAIN dd[m].entries
                /\ FirstPc(gen[r].kind) # "builtin" ->
                  /\ thr' = [thr EXCEPT ![t] =
                               [IdleThread EXCEPT
                                  !.pc = FirstPc(gen[r].kind), !.ref = r,
                                  !.map = m, !.key = key]]
                  /\ UNCHANGED << gen, dd, returned, misses >>
    /\ UNCHANGED << strategy, lookups, printed, out, shared >>

\* Thread t calls the factory directly.
BeginCall(t) ==
    /\ thr[t].pc = "idle"
    /\ pos < MaxOps
    /\ pos' = pos + 1
    /\ LET c == Call(gen[1])
       IN  IF FirstPc(gen[1].kind) = "builtin"
           THEN /\ gen' = [gen EXCEPT ![1] = c.gen]
                /\ Finish(t, 0, "", c.exc, c.ret)
           ELSE /\ thr' = [thr EXCEPT ![t] =
                             [IdleThread EXCEPT
                                !.pc = FirstPc(gen[1].kind), !.ref = 1]]
                /\ UNCHANGED << gen, dd, returned, misses >>
    /\ UNCHANGED << strategy, lookups, printed, out, shared >>

\* count += 1, first half: the count is read.
ReadStep(t) ==
    /\ thr[t].pc = "read"
    /\ thr' = [thr EXCEPT ![t].tmp = ReadCount(gen[thr[t].ref]), ![t].pc = "write"]
    /\ UNCHANGED << gen, dd, strategy, lookups, pos, printed, returned, out,
                    shared, misses >>

\* count += 1, second half: the count read before, plus one, is written.
WriteStep(t) ==
    /\ thr[t].pc = "write"
    /\ gen' = [gen EXCEPT ![thr[t].ref] = WriteCount(@, thr[t].tmp + 1)]
    /\ thr' = [thr EXCEPT ![t].pc = "load"]
    /\ UNCHANGED << dd, strategy, lookups, pos, printed, returned, out, shared,
                    misses >>

\* return count: the count is read again for the return value.
LoadStep(t) ==
    /\ thr[t].pc = "load"
    /\ thr' = [thr EXCEPT ![t].ret = ReadCount(gen[thr[t].ref]), ![t].pc = "return"]
    /\ UNCHANGED << gen, dd, strategy, lookups, pos, printed, returned, out,
                    shared, misses >>

\* c.pop(): IndexError on an empty list.
PopStep(t) ==
    /\ thr[t].pc = "pop"
    /\ LET c == gen[thr[t].ref].c
       IN  IF Len(c) = 0
           THEN /\ Finish(t, thr[t].map, thr[t].key, "IndexError", 0)
                /\ UNCHANGED << gen, out >>
           ELSE /\ gen' = [gen EXCEPT ![thr[t].ref].c = SubSeq(c, 1, Len(c) - 1)]
                /\ thr' = [thr EXCEPT ![t].tmp = c[Len(c)], ![t].pc = "append"]
                /\ UNCHANGED << dd, returned, out, misses >>
    /\ UNCHANGED << strategy, lookups, pos, printed, shared >>

\* c.append(<popped> + 1)
AppendStep(t) ==
    /\ thr[t].pc = "append"
    /\ gen' = [gen EXCEPT ![thr[t].ref].c = Append(@, thr[t].tmp + 1)]
    /\ thr' = [thr EXCEPT ![t].pc = "index"]
    /\ UNCHANGED << dd, strategy, lookups, pos, printed, returned, out, shared,
                    misses >>

\* ... or c[0]: IndexError on an empty list.
IndexStep(t) ==
    /\ thr[t].pc = "index"
    /\ LET c == gen[thr[t].ref].c
       IN  IF Len(c) = 0
           THEN /\ Finish(t, thr[t].map, thr[t].key, "IndexError", 0)
                /\ out' = out
           ELSE /\ thr' = [thr EXCEPT ![t].ret = c[1], ![t].pc = "return"]
                /\ UNCHANGED << dd, returned, out, misses >>
    /\ UNCHANGED << gen, strategy, lookups, pos, printed, shared >>

\* __next__ of a generator that another thread is running raises
\* ValueError (generator already executing).
EnterStep(t) ==
    /\ thr[t].pc = "enter"
    /\ IF \E u \in Threads \ {t} : thr[u].pc = "body" /\ thr[u].ref = thr[t].ref
       THEN /\ Finish(t, thr[t].map, thr[t].key, "ValueError", 0)
            /\ out' = out
       ELSE /\ thr' = [thr EXCEPT ![t].pc = "body"]
            /\ UNCHANGED << dd, returned, out, misses >>
    /\ UNCHANGED << gen, strategy, lookups, pos, printed, shared >>

\* The generator runs to its next yield.
BodyStep(t) ==
    /\ thr[t].pc = "body"
    /\ LET c == count_generator_next(gen[thr[t].ref])
       IN  /\ gen' = [gen EXCEPT ![thr[t].ref] = c.gen]
           /\ thr' = [thr EXCEPT ![t].ret = c.ret, ![t].pc = "return"]
    /\ UNCHANGED << dd, strategy, lookups, pos, printed, returned, out, shared,
                    misses >>

\* next(c)[0] of the enumerate lambda: next(c) runs without a thread switch
\* and [0] reads the tuple it returned.
AtomicStep(t) ==
    /\ thr[t].pc = "atomic"
    /\ LET c == Call(gen[thr[t].ref])
       IN  /\ gen' = [gen EXCEPT ![thr[t].ref] = c.gen]
           /\ IF c.exc # ""
              THEN /\ Finish(t, thr[t].map, thr[t].key, c.exc, 0)
                   /\ out' = out
              ELSE /\ thr' = [thr EXCEPT ![t].ret = c.ret, ![t].pc = "return"]
                   /\ UNCHANGED << dd, returned, out, misses >>
    /\ UNCHANGED << strategy, lookups, pos, printed, shared >>

\* The factory returns its value.
ReturnStep(t) ==
    /\ thr[t].pc = "return"
    /\ Finish(t, thr[t].map, thr[t].key, "", thr[t].ret)
    /\ UNCHANGED << gen, strategy, lookups, pos, printed, out, shared >>

NextConc ==
    \E t \in Threads :
        \/ \E m \in Maps, key \in KeysConc : BeginLookup(t, m, key)
        \/ BeginCall(t)
        \/ ReadStep(t)
        \/ WriteStep(t)
        \/ LoadStep(t)
        \/ PopStep(t)
        \/ AppendStep(t)
        \/ IndexStep(t)
        \/ EnterStep(t)
        \/ BodyStep(t)
        \/ AtomicStep(t)
        \/ ReturnStep(t)

SpecConc == InitConc /\ [][NextConc]_vars

\* ===================================================================== *
\* SpecSerial: the class SerialInt called with and without an argument,   *
\* directly and as the factory of dd = defaultdict(SerialInt).            *
\* ===================================================================== *
\* Arguments of the calls SerialInt(x).
ExplicitValues == {0, 7}

InitSerial ==
    /\ strategy = "SerialInt"
    /\ LET f == FactoryExpr("SerialInt", Definitions("SerialInt", << >>))
       IN  /\ gen = f.heap
           /\ dd = << defaultdict_new(CallableArg(f.ref)).map >>
    /\ lookups = << >>
    /\ pos = 0
    /\ printed = << >>
    /\ returned = << >>
    /\ out = NoOut
    /\ shared = FALSE
    /\ misses = << >>
    /\ thr = << >>

\* SerialInt(): the value is appended to the history of serial numbers.
SerialNoArg ==
    /\ pos < MaxSerialCalls
    /\ pos' = pos + 1
    /\ LET c == SerialInt_new(gen[1], TRUE, 0)
       IN  /\ gen' = [gen EXCEPT ![1] = c.gen]
           /\ returned' = Append(returned, c.ret)
           /\ out' = [NoOut EXCEPT !.op = "call", !.ret = c.ret]
    /\ UNCHANGED << dd, strategy, lookups, printed, shared, misses, thr >>

\* SerialInt(x)
SerialExplicit(x) ==
    /\ pos < MaxSerialCalls
    /\ pos' = pos + 1
    /\ LET c == SerialInt_new(gen[1], FALSE, x)
       IN  /\ gen' = [gen EXCEPT ![1] = c.gen]
           /\ out' = [NoOut EXCEPT !.op = "explicit", !.ret = c.ret]
    /\ UNCHANGED << dd, strategy, lookups, printed, returned, shared, misses,
                    thr >>

\* dd[key]: a missing key calls SerialInt() and its value joins the history.
SerialLookup(key) ==
    /\ pos < MaxSerialCalls
    /\ pos' = pos + 1
    /\ LET r == GetItem(dd[1], key, gen)
       IN  /\ dd' = [dd EXCEPT ![1] = r.map]
           /\ gen' = r.heap
           /\ out' = [op |-> "getitem", map |-> 1, key |-> key,
                      exc |-> r.exc, ret |-> r.ret, miss |-> r.miss]
           /\ returned' = IF r.miss /\ r.exc = ""
                          THEN Append(returned, r.ret)
                          ELSE returned
           /\ misses' = IF r.miss /\ r.exc = ""
                        THEN Append(misses, << 1, key >>)
                        ELSE misses
    /\ UNCHANGED << strategy, lookups, printed, shared, thr >>

NextSerial ==
    \/ SerialNoArg
    \/ \E x \in ExplicitValues : SerialExplicit(x)
    \/ \E key \in KeysTwo : SerialLookup(key)

SpecSerial == InitSerial /\ [][NextSerial]_vars

\* ===================================================================== *
\* SpecWords: the word count.  d is a plain dict ("dict") or              *
\* defaultdict(int) ("int"); for every word of source_text the loop       *
\* executes d[word] += 1, then a second loop prints every item.           *
\* ===================================================================== *
\* Variant: d[key] = 1 instead of d[key] += 1.
AugAdd_assign(d, key, heap) ==
    LET r == GetItem(d, key, heap)
    IN  IF r.exc # ""
        THEN [map |-> r.map, heap |-> r.heap, exc |-> r.exc, miss |-> r.miss]
        ELSE [map |-> [r.map EXCEPT !.entries = Store(r.map.entries, key, 1)],
              heap |-> r.heap, exc |-> "", miss |-> r.miss]

\* d[key] += 1: d[key] is looked up (a defaultdict stores the default on a
\* miss, a dict raises KeyError), one is added and the sum is stored.
AugAdd(d, key, heap) ==
    LET r == GetItem(d, key, heap)
    IN  IF r.exc # ""
        THEN [map |-> r.map, heap |-> r.heap, exc |-> r.exc, miss |-> r.miss]
        ELSE [map |-> [r.map EXCEPT !.entries =
                          Store(r.map.entries, key, r.ret + 1)],
              heap |-> r.heap, exc |-> "", miss |-> r.miss]

InitWords ==
    /\ strategy \in {"dict", "int"}
    /\ lookups \in BoundedSeq(Keys, MaxLookups)
    /\ LET f == FactoryExpr("int", << >>)
       IN  IF strategy = "int"
           THEN /\ gen = f.heap
                /\ dd = << defaultdict_new(CallableArg(f.ref)).map >>
           ELSE /\ gen = << >>
                /\ dd = << [default_factory |-> NoneArg, entries |-> NoEntries] >>
    /\ pos = 0
    /\ printed = << >>
    /\ returned = << >>
    /\ out = NoOut
    /\ shared = FALSE
    /\ misses = << >>
    /\ thr = << >>

\* One pass of the loop body d[word] += 1; an exception ends the cell.
CountWord ==
    /\ pos < Len(lookups)
    /\ out.exc = ""
    /\ LET word == lookups[pos + 1]
           r    == AugAdd(dd[1], word, gen)
       IN  /\ dd' = [dd EXCEPT ![1] = r.map]
           /\ gen' = r.heap
           /\ out' = [op |-> "augadd", map |-> 1, key |-> word, exc |-> r.exc,
                      ret |-> 0, miss |-> r.miss]
           /\ misses' = IF r.miss /\ r.exc = ""
                        THEN Append(misses, << 1, word >>)
                        ELSE misses
    /\ pos' = pos + 1
    /\ UNCHANGED << strategy, lookups, printed, returned, shared, thr >>

\* for (key, count) in dd.items(): print(...), in the order of insertion
PrintItems ==
    /\ pos = Len(lookups)
    /\ out.exc = ""
    /\ out.op # "print"
    /\ printed' = [i \in 1..Len(misses) |->
                     << misses[i][2], dd[1].entries[misses[i][2]] >>]
    /\ out' = [NoOut EXCEPT !.op = "print"]
    /\ UNCHANGED << gen, dd, strategy, lookups, pos, returned, shared, misses,
                    thr >>

NextWords == CountWord \/ PrintItems

SpecWords == InitWords /\ [][NextWords]_vars

\* ===================================================================== *
\* SpecPile: functions with a mutable default argument,                   *
\* pile_it_on(item, pile=[]) and counter(count=[0]), called with the      *
\* default and with a list of the caller's own.                           *
\* ===================================================================== *
\* The lists a caller passes for pile ([] in the notebook).
ExplicitPiles == { << >>, << "ham" >> }

\* The lists a caller passes for count.
ExplicitCounts == { << 0 >>, << 5 >> }

\* Variant: the default list is used whatever the caller passes.
pile_it_on_default_only(f, item, explicit, arg) ==
    LET pile1 == Append(f.pile, item)
    IN  Returns([f EXCEPT !.pile = pile1], pile1)

\* pile_it_on(item, pile): pile.append(item); return pile.  pile is the
\* caller's list, or the function's one default list when none is passed.
pile_it_on(f, item, explicit, arg) ==
    LET pile  == IF explicit THEN arg ELSE f.pile
        pile1 == Append(pile, item)
    IN  Returns(IF explicit THEN f ELSE [f EXCEPT !.pile = pile1], pile1)

\* counter(count): count[0] += 1; return count[0], on the caller's list or
\* on the default list.
counter_call_arg(f, explicit, arg) ==
    IF explicit
    THEN LET lst1 == [arg EXCEPT ![1] = arg[1] + 1]
         IN  Returns(f, lst1[1])
    ELSE counter_call(f)

\* def pile_it_on(item, pile=[]) and def counter(count=[0]) executed.
InitPile ==
    /\ strategy = "pile_it_on"
    /\ gen = << [kind |-> "pile_it_on", pile |-> << >>], Fresh("counter") >>
    /\ dd = << >>
    /\ lookups = << >>
    /\ pos = 0
    /\ printed = << >>
    /\ returned = << >>
    /\ out = NoOut
    /\ shared = FALSE
    /\ misses = << >>
    /\ thr = << >>

\* print(pile_it_on(item)) or print(pile_it_on(item, arg)): the call is
\* logged in lookups and the printed list in printed.
PileCall(item, explicit, arg) ==
    /\ pos < MaxPileCalls
    /\ pos' = pos + 1
    /\ LET c == pile_it_on(gen[1], item, explicit, arg)
       IN  /\ gen' = [gen EXCEPT ![1] = c.gen]
           /\ printed' = Append(printed, c.ret)
           /\ lookups' = Append(lookups,
                                [item |-> item, explicit |-> explicit, arg |-> arg])
           /\ out' = [NoOut EXCEPT !.op = "pile_it_on"]
    /\ UNCHANGED << dd, strategy, returned, shared, misses, thr >>

\* counter(): the value joins the history of default calls.
CounterDefaultCall ==
    /\ pos < MaxPileCalls
    /\ pos' = pos + 1
    /\ LET c == counter_call_arg(gen[2], FALSE, << >>)
       IN  /\ gen' = [gen EXCEPT ![2] = c.gen]
           /\ returned' = Append(returned, c.ret)
           /\ out' = [NoOut EXCEPT !.op = "counter", !.ret = c.ret]
    /\ UNCHANGED << dd, strategy, lookups, printed, shared, misses, thr >>

\* counter([n])
CounterExplicitCall(arg) ==
    /\ pos < MaxPileCalls
    /\ pos' = pos + 1
    /\ LET c == counter_call_arg(gen[2], TRUE, arg)
       IN  /\ gen' = [gen EXCEPT ![2] = c.gen]
           /\ out' = [NoOut EXCEPT !.op = "counter_explicit", !.ret = c.ret,
                                   !.map = arg[1]]
    /\ UNCHANGED << dd, strategy, lookups, printed, returned, shared, misses,
                    thr >>

NextPile ==
    \/ \E item \in KeysTwo : PileCall(item, FALSE, << >>)
    \/ \E item \in KeysTwo, arg \in ExplicitPiles : PileCall(item, TRUE, arg)
    \/ CounterDefaultCall
    \/ \E arg \in ExplicitCounts : CounterExplicitCall(arg)

SpecPile == InitPile /\ [][NextPile]_vars

\* ===================================================================== *
\* Properties                                                             *
\* ===================================================================== *
\* Index of the first occurrence of seq[i] in seq.
FirstIndex(seq, i) ==
    CHOOSE j \in 1..i : seq[j] = seq[i] /\ \A h \in 1..(j - 1) : seq[h] # seq[i]

\* 1 + the number of distinct keys first looked up before seq[i] was.
ExpectedValue(seq, i) ==
    1 + Cardinality({ seq[h] : h \in 1..(FirstIndex(seq, i) - 1) })

\* Number of lookups already made on the defaultdict of cell m.
Done(m) == IF m < Len(dd) THEN Len(lookups) ELSE pos

\* The object holding the count of the factory of defaultdict m.
FactoryOf(m) == gen[dd[m].default_factory.ref]

\* The keys stored in defaultdict m, in the order they were stored.
MissOrder(m) ==
    LET OfMap(e) == e[1] = m
        sel == SelectSeq(misses, OfMap)
    IN  [i \in 1..Len(sel) |-> sel[i][2]]

\* C1: a fresh factory of any solution, called N times in a row, returns
\* 1, 2, ..., N in call order; each call raises the cursor by exactly one
\* and returns the new cursor.
C1_ReturnsOneToN ==
    /\ [](/\ \A i \in 1..Len(returned) : returned[i] = i
          /\ Cursor(gen[1]) = Len(returned))
    /\ [][/\ Len(returned') = Len(returned) + 1
          /\ Cursor(gen'[1]) = Cursor(gen[1]) + 1
          /\ out'.exc = ""
          /\ out'.ret = Cursor(gen'[1])]_vars

C1_Witness == Len(returned) = MaxCalls /\ returned[MaxCalls] = MaxCalls

\* C2: on a fresh defaultdict with a fresh factory every lookup of key k
\* returns 1 + the number of distinct keys first looked up before k; a miss
\* stores the value the factory returned under k and returns it.
C2_LookupValues ==
    /\ \A c \in DOMAIN printed :
         /\ Len(printed[c]) = Done(c)
         /\ \A i \in DOMAIN printed[c] :
              printed[c][i] = ExpectedValue(lookups, i)
    /\ (out.op = "getitem" /\ out.miss) =>
         /\ out.key \in DOMAIN dd[out.map].entries
         /\ dd[out.map].entries[out.key] = out.ret
         /\ out.ret = Cursor(FactoryOf(out.map))

C2_Witness ==
    /\ Len(dd) >= 1
    /\ pos = 4
    /\ lookups[1] # lookups[2] /\ lookups[3] = lookups[1]
    /\ lookups[4] \notin {lookups[1], lookups[2]}
    /\ printed[Len(dd)] = << 1, 2, 1, 3 >>

\* C3: for every defaultdict with its own fresh factory the number of
\* factory calls (the cursor) equals len(dd), which equals the number of
\* distinct keys looked up so far.
C3_ExactlyOncePerKey ==
    \A m \in DOMAIN dd :
        /\ Cursor(FactoryOf(m)) = Cardinality(DOMAIN dd[m].entries)
        /\ Len(MissOrder(m)) = Cardinality(DOMAIN dd[m].entries)
        /\ DOMAIN dd[m].entries = { lookups[i] : i \in 1..Done(m) }

C3_Witness ==
    /\ Len(dd) >= 1
    /\ pos = MaxLookups
    /\ Cardinality(DOMAIN dd[Len(dd)].entries) = 2
    /\ lookups[1] # lookups[2]
    /\ lookups[3] = lookups[2]
    /\ lookups[4] = lookups[1]

\* C4: a key stored with value v stays stored with value v in every later
\* state, and every later lookup of that key returns v.
C4_Stability ==
    [][\A m \in DOMAIN dd : \A k \in DOMAIN dd[m].entries :
         /\ m \in DOMAIN dd'
         /\ k \in DOMAIN dd'[m].entries
         /\ dd'[m].entries[k] = dd[m].entries[k]
         /\ (out'.op = "getitem" /\ out'.map = m /\ out'.key = k) =>
               (out'.exc = "" /\ out'.ret = dd[m].entries[k])]_vars

C4_Witness ==
    /\ Len(dd) >= 2
    /\ pos >= 4
    /\ out.op = "getitem" /\ ~out.miss
    /\ out.key = lookups[1]
    /\ out.ret = 1
    /\ Cardinality(DOMAIN dd[Len(dd)].entries) = 3

\* C5: a lookup of a key that is already present changes neither the
\* factory's state nor any entry, also when the key is repeated at once.
C5_HitChangesNothing ==
    [][(/\ out'.op = "getitem"
        /\ out'.map \in DOMAIN dd
        /\ out'.key \in DOMAIN dd[out'.map].entries)
       => (gen' = gen /\ dd' = dd /\ misses' = misses)]_vars

C5_Witness ==
    /\ pos >= 3
    /\ lookups[pos] = lookups[pos - 1]
    /\ lookups[pos] = lookups[pos - 2]
    /\ out.op = "getitem" /\ ~out.miss

\* C6: for the same key sequence every solution's defaultdict returns the
\* values the CounterObj defaultdict (cell 1) returns.
C6_StrategiesAgree ==
    \A c \in DOMAIN printed : \A i \in DOMAIN printed[c] :
        /\ i \in DOMAIN printed[1]
        /\ printed[c][i] = printed[1][i]

C6_Witness ==
    /\ Len(printed) = Len(CellOrder)
    /\ Len(lookups) = MaxLookups
    /\ pos = Len(lookups)
    /\ Cardinality({ lookups[i] : i \in DOMAIN lookups }) = NumKeys
    /\ \A c \in DOMAIN printed : printed[c] = printed[1]

\* The notebook's own key sequence and printed line.
Scenario == << "spam", "eggs", "spam", "and", "spam" >>

ScenarioOutput == << 1, 2, 1, 3, 1 >>

\* C9: every cell that looks up spam, eggs, spam, and, spam on its fresh
\* defaultdict prints 1 2 1 3 1.
C9_SpamScenario ==
    lookups = Scenario =>
        \A c \in DOMAIN printed :
            printed[c] = SubSeq(ScenarioOutput, 1, Done(c))

C9_Witness ==
    /\ lookups = Scenario
    /\ Len(printed) = Len(CellOrder)
    /\ \A c \in DOMAIN printed : printed[c] = ScenarioOutput

\* The two defaultdicts were built from separately evaluated factory
\* expressions of a solution that makes a new count per expression.
OwnFactories ==
    /\ ~shared
    /\ strategy \in Strategy \ {"SerialInt", "counter"}

\* One count serves both defaultdicts: the same factory object was passed
\* to both, or the solution keeps its count in the class or the function.
OneFactory == shared \/ strategy \in {"SerialInt", "counter"}

\* C7: two defaultdicts with a factory of their own each: the values of a
\* map are 1, 2, ... in the order of that map's own misses (so its first
\* miss returns 1), and a lookup on one map changes neither the entries
\* nor the cursor of the other.
C7_Independence ==
    /\ [](OwnFactories =>
            \A m \in Maps :
                /\ DOMAIN dd[m].entries =
                      { MissOrder(m)[i] : i \in DOMAIN MissOrder(m) }
                /\ \A i \in DOMAIN MissOrder(m) :
                      dd[m].entries[MissOrder(m)[i]] = i
                /\ Cursor(FactoryOf(m)) = Len(MissOrder(m)))
    /\ [][OwnFactories =>
            \A m \in Maps :
                (out'.op = "getitem" /\ out'.map # m) =>
                    /\ dd'[m] = dd[m]
                    /\ FactoryOf(m)' = FactoryOf(m)]_vars

C7_Witness ==
    /\ OwnFactories
    /\ Len(misses) = 4
    /\ misses[1][1] = 1 /\ misses[2][1] = 2
    /\ misses[3][1] = 2 /\ misses[4][1] = 1
    /\ \A m \in Maps : \E k \in DOMAIN dd[m].entries : dd[m].entries[k] = 1
    /\ \A m \in Maps : \E k \in DOMAIN dd[m].entries : dd[m].entries[k] = 2

\* C8: two defaultdicts served by one count: the i-th miss overall stores
\* i, so the stored values of both maps together are exactly 1..m for m
\* misses, without repetition; the second map does not restart at 1.
C8_SharedSeries ==
    OneFactory =>
        /\ \A i \in DOMAIN misses :
              /\ misses[i][2] \in DOMAIN dd[misses[i][1]].entries
              /\ dd[misses[i][1]].entries[misses[i][2]] = i
        /\ Len(misses) = Cardinality(DOMAIN dd[1].entries)
                         + Cardinality(DOMAIN dd[2].entries)
        /\ \A m1, m2 \in Maps :
              \A k1 \in DOMAIN dd[m1].entries, k2 \in DOMAIN dd[m2].entries :
                 dd[m1].entries[k1] = dd[m2].entries[k2] => (m1 = m2 /\ k1 = k2)
        /\ \A m \in Maps : \A k \in DOMAIN dd[m].entries :
              dd[m].entries[k] \in 1..Len(misses)

C8_Witness ==
    /\ ~shared
    /\ strategy = "SerialInt"
    /\ Len(misses) = 4
    /\ misses[1][1] = 1 /\ misses[2][1] = 2
    /\ misses[3][1] = 1 /\ misses[4][1] = 2
    /\ \A k \in DOMAIN dd[2].entries : dd[2].entries[k] \in {2, 4}

Quiescent == \A t \in Threads : thr[t].pc = "idle"

\* C11: when the factory call made for a missing key raises, the lookup
\* ends with that exception for its caller and no defaultdict changes: the
\* key is not stored and every entry keeps its value.
C11_FailedCallStoresNothing ==
    [][\A t \in Threads :
          (thr[t].pc # "idle" /\ thr'[t].pc = "idle" /\ thr'[t].lastexc # "")
          => /\ dd' = dd
             /\ misses' = misses
             /\ returned' = returned
             /\ thr'[t].lastmap = thr[t].map
             /\ thr'[t].lastkey = thr[t].key
             /\ thr'[t].lastexc \in {"IndexError", "ValueError"}]_vars

C11_Witness ==
    \E t \in Threads :
        /\ thr[t].lastop = "getitem"
        /\ thr[t].lastexc # ""
        /\ thr[t].lastkey \notin DOMAIN dd[thr[t].lastmap].entries
        /\ DOMAIN dd[thr[t].lastmap].entries # {}
        /\ Quiescent

\* C12: concurrent calls of one CounterObj, of SerialInt or of counter
\* never return the same value twice, and once all calls have returned the
\* values returned are exactly 1..(number of calls).
C12_CallsAtomic ==
    strategy \in {"CounterObj", "SerialInt", "counter"} =>
        /\ \A i, j \in DOMAIN returned :
              i # j => returned[i] # returned[j]
        /\ Quiescent =>
              { returned[i] : i \in DOMAIN returned } = 1..Len(returned)

\* C13: concurrent lookups of one missing key advance the factory once
\* for that key (every key is stored once), and every caller gets the
\* value that is stored.
C13_OncePerKeyConcurrent ==
    \A m \in Maps :
        /\ Len(MissOrder(m)) = Cardinality(DOMAIN dd[m].entries)
        /\ \A t \in Threads :
              (thr[t].lastop = "getitem" /\ thr[t].lastmap = m
                    /\ thr[t].lastexc = "") =>
                 /\ thr[t].lastkey \in DOMAIN dd[m].entries
                 /\ dd[m].entries[thr[t].lastkey] = thr[t].lastret

\* C18: for lambda c=[0]: c.append(c.pop() + 1) or c[0] the list c has one
\* element whenever no call is running, no call finds c empty, and no two
\* calls return the same value.
C18_PopLambdaSafe ==
    strategy = "lambda_pop" =>
        /\ Quiescent => Len(gen[1].c) = 1
        /\ \A t \in Threads : thr[t].lastexc # "IndexError"
        /\ \A i, j \in DOMAIN returned :
              i # j => returned[i] # returned[j]

\* The factories that draw their values from an iterator.
IteratorStrategies ==
    {"count_generator_func", "count_next", "partial_next", "lambda_enumerate"}

\* C17: a factory built on an iterator returns a value at every call,
\* however many calls came before: no call raises StopIteration (the
\* generator is suspended at its yield again after every call, and int()
\* never equals the sentinel of iter(int, 1)).
C17_IteratorsNeverStop ==
    /\ [](strategy \in IteratorStrategies =>
            /\ out.exc = ""
            /\ IntCall # Sentinel
            /\ (strategy = "count_generator_func" /\ out.op = "call") =>
                  gen[1].pc = "yield")
    /\ [][(strategy \in IteratorStrategies) =>
            (/\ out'.op = "call"
             /\ out'.exc = ""
             /\ returned' = Append(returned, out'.ret))]_vars

C17_Witness ==
    /\ strategy = "count_generator_func"
    /\ Len(returned) = MaxCalls
    /\ gen[1].pc = "yield"
    /\ out.op = "call" /\ out.exc = ""

\* C16: SerialInt(x) takes no serial number: in any mix of SerialInt(),
\* SerialInt(x) and lookups the n-th call without argument returns n.
C16_ExplicitTakesNoNumber ==
    /\ \A n \in DOMAIN returned : returned[n] = n
    /\ gen[1].count = Len(returned)

\* Number of occurrences of w among the first n words of seq.
Occurrences(seq, n, w) == Cardinality({ i \in 1..n : seq[i] = w })

\* C15: with dd = defaultdict(int), after dd[word] += 1 for every word the
\* keys of dd are the distinct words and dd[w] is the number of
\* occurrences of w; no statement raises KeyError; every key is printed
\* once with its count.
C15_WordCount ==
    strategy = "int" =>
        /\ out.exc = ""
        /\ DOMAIN dd[1].entries = { lookups[i] : i \in 1..pos }
        /\ \A w \in DOMAIN dd[1].entries :
              dd[1].entries[w] = Occurrences(lookups, pos, w)
        /\ out.op = "print" =>
              /\ { printed[i][1] : i \in DOMAIN printed } =
                    { lookups[i] : i \in DOMAIN lookups }
              /\ Len(printed) = Cardinality({ lookups[i] : i \in DOMAIN lookups })
              /\ \A i \in DOMAIN printed :
                    printed[i][2] = Occurrences(lookups, Len(lookups), printed[i][1])

C15_Witness ==
    /\ strategy = "int"
    /\ lookups = Scenario
    /\ out.op = "print"
    /\ printed = << << "spam", 3 >>, << "eggs", 1 >>, << "and", 1 >> >>

\* The items of the calls among the first n that used the default pile.
DefaultItems(n) ==
    LET UsesDefault(c) == ~c.explicit
        sel == SelectSeq(SubSeq(lookups, 1, n), UsesDefault)
    IN  [i \in 1..Len(sel) |-> sel[i].item]

\* C14: a call with a list of its own works on that list only; the k-th
\* call that uses the default sees the k-1 earlier default calls and no
\* explicit call: pile_it_on returns the items of the default calls so
\* far, counter() returns k, and the default objects hold exactly that.
C14_OverrideNotOverwrite ==
    /\ \A i \in DOMAIN printed :
          printed[i] = IF lookups[i].explicit
                       THEN Append(lookups[i].arg, lookups[i].item)
                       ELSE DefaultItems(i)
    /\ gen[1].pile = DefaultItems(Len(lookups))
    /\ \A k \in DOMAIN returned : returned[k] = k
    /\ gen[2].count_list = << Len(returned) >>
    /\ out.op = "counter_explicit" => out.ret = out.map + 1

C14_Witness ==
    /\ Len(lookups) = 4
    /\ printed = << << "spam" >>, << "spam", "spam" >>, << "eggs" >>,
                    << "spam", "spam", "spam" >> >>
    /\ lookups[3].explicit /\ lookups[3].arg = << >>

====
